---- MODULE Spec2Model ----
(***************************************************************************)
(* Model of package ffmpeg (practigo/ffmpeg): HookedRunner.Run and the     *)
(* HookRunner constructor with its functional options.                     *)
(*                                                                         *)
(* A Run call is the main flow (LookPath, Fields/Command, pre hook, Start, *)
(* post hook, spawning the exit-handling goroutine, Wait, close(cleanup),  *)
(* return) racing with the goroutine it spawns (the "watcher"), with the   *)
(* caller's context cancellation and with the child process itself.        *)
(* Strings are sequences of one-character strings.                         *)
(***************************************************************************)
EXTENDS Integers, Sequences, FiniteSets, TLC

\* ------------------------------------------------------------------ bounds
MaxOpts == 2      \* options passed to HookRunner
MaxArgLen == 4    \* characters of an argument string (FieldsSpec)

\* ------------------------------------------------------------ Run calls
Calls == {"c1", "c2"}      \* identities of Run calls on the one runner
Solo == {"c1"}             \* the call that is made under Spec

\* --------------------------------------------------- strings.Fields (l.49)
AsciiSpace == {" ", "\t"}
Chars == {"-", "i", "t"} \cup AsciiSpace

IsSpace(ch) == ch \in AsciiSpace

RECURSIVE SkipSpaces(_, _)
\* for i < len(s) && asciiSpace[s[i]] != 0 { i++ }   (positions are 1-based)
SkipSpaces(s, i) ==
  IF i <= Len(s) /\ IsSpace(s[i]) THEN SkipSpaces(s, i + 1) ELSE i

\* mutant: a field ends at every single whitespace character
SkipBetweenOne(s, i) == i

\* after a field: i++, then skip the spaces in between fields
SkipBetween(s, i) == SkipSpaces(s, i)

RECURSIVE FieldsScan(_, _, _, _)
\* the main loop of strings.Fields: i scans, fieldStart is where the
\* current field began, a collects the fields
FieldsScan(s, i, fieldStart, a) ==
  IF i > Len(s)
    THEN IF fieldStart <= Len(s)
           THEN Append(a, SubSeq(s, fieldStart, Len(s)))
           ELSE a
    ELSE IF ~IsSpace(s[i])
           THEN FieldsScan(s, i + 1, fieldStart, a)
           ELSE LET j == SkipBetween(s, i + 1)
                IN  FieldsScan(s, j, j, Append(a, SubSeq(s, fieldStart, i - 1)))

Fields(s) == LET i == SkipSpaces(s, 1) IN FieldsScan(s, i, i, <<>>)

\* exec.Command(path, args...): cmd.Path and cmd.Args (Args[0] is the path)
Command(path, args) == [Path |-> path, Args |-> <<path>> \o args]

\* no exec.Cmd yet
NoCmd == [Path |-> "", Args |-> <<>>]

\* ------------------------------------------------- runner and its options
Installed == {"ffmpeg"}            \* names exec.LookPath can resolve

\* mutant: LookPath never fails
LookPathAlways(p) == TRUE

LookPathOK(p) == p \in Installed

\* mutant: no default exit hook
DefaultExitNone == "nil"

\* the default exit hook: cmd.Process.Kill()
DefaultExit == "kill"

DefaultRunner == [path |-> "ffmpeg", pre |-> "nil", post |-> "nil", exit |-> DefaultExit]

CustomPath(p) == [opt |-> "CustomPath", v |-> p]
PreHook(h)    == [opt |-> "PreHook", v |-> h]
PostHook(h)   == [opt |-> "PostHook", v |-> h]
DoneHook(h)   == [opt |-> "DoneHook", v |-> h]

\* o(r): what one option does to the runner
ApplyOpt(o, rr) ==
  CASE o.opt = "CustomPath" -> [rr EXCEPT !.path = o.v]
    [] o.opt = "PreHook"    -> [rr EXCEPT !.pre = o.v]
    [] o.opt = "PostHook"   -> [rr EXCEPT !.post = o.v]
    [] o.opt = "DoneHook"   -> [rr EXCEPT !.exit = o.v]

RECURSIVE ApplyOpts(_, _)
\* for _, o := range opts { o(r) }
ApplyOpts(os, rr) ==
  IF os = <<>> THEN rr ELSE ApplyOpts(Tail(os), ApplyOpt(Head(os), rr))

HookRunner(os) == ApplyOpts(os, DefaultRunner)

\* the options a caller passes in this model: "ok"/"fail" are pre hooks
\* returning nil / an error, "log" is the example's post hook, "term" is the
\* example's exit hook (cmd.Process.Signal(SIGTERM)), "nil" is a nil hook
Options == {CustomPath("nosuch"), PreHook("ok"), PreHook("fail"),
            PostHook("log"), DoneHook("term"), DoneHook("nil")}

RECURSIVE SeqsUpTo(_, _)
SeqsUpTo(S, n) ==
  IF n = 0 THEN {<<>>}
  ELSE LET shorter == SeqsUpTo(S, n - 1)
       IN  shorter \cup {Append(q, x) : q \in shorter, x \in S}

OptSeqs == SeqsUpTo(Options, MaxOpts)

\* every argument string of at most MaxArgLen characters
AllArgs == SeqsUpTo(Chars, MaxArgLen)

\* argument strings of the Run calls under Spec
ArgSamples == {<<"-", "i", " ", "t">>, <<" ", "-", "i", "\t", " ", "t", " ">>}


\* ------------------------------------------------------------------ state
VARIABLES
  opts,       \* the options HookRunner was called with
  r,          \* the HookedRunner: path, pre, post, exit
  arg,        \* arg[c]: the argument string of call c
  cmd,        \* cmd[c]: the exec.Cmd of call c, NoCmd before exec.Command
  pc,         \* pc[c]: where the main flow of call c is
  wpc,        \* wpc[c]: where the goroutine spawned by call c is
  cancelled,  \* cancelled[c]: ctx.Done() of call c is closed
  cleanup,    \* cleanup[c]: the cleanup channel: "none", "open", "closed"
  proc,       \* proc[c]: the child: "none", "running", "exited", "reaped"
  status,     \* status[c]: how the child exited
  termSent,   \* termSent[c]: SIGTERM was delivered to the running child
  err,        \* err[c]: the local err of Run
  ret,        \* ret[c]: what Run returned, "none" while it has not
  count,      \* count[c]: how often each hook / operation happened
  when        \* when[c]: what the child and Run were doing at an event

vars == <<opts, r, arg, cmd, pc, wpc, cancelled, cleanup, proc, status,
          termSent, err, ret, count, when>>

config == <<opts, r, arg>>

NoCount == [pre |-> 0, start |-> 0, post |-> 0, spawn |-> 0, wait |-> 0,
            done |-> 0, teardown |-> 0, exit |-> 0, kill |-> 0, sig |-> 0]

NoWhen == [cancel |-> "never", exit |-> "never", exitpc |-> "never"]

Bump(c, f) == [count EXCEPT ![c][f] = @ + 1]

Init ==
  /\ opts \in OptSeqs
  /\ r = HookRunner(opts)
  /\ arg \in [Calls -> ArgSamples]
  /\ cmd = [c \in Calls |-> NoCmd]
  /\ pc = [c \in Calls |-> "idle"]
  /\ wpc = [c \in Calls |-> "none"]
  /\ cancelled = [c \in Calls |-> FALSE]
  /\ cleanup = [c \in Calls |-> "none"]
  /\ proc = [c \in Calls |-> "none"]
  /\ status = [c \in Calls |-> "none"]
  /\ termSent = [c \in Calls |-> FALSE]
  /\ err = [c \in Calls |-> "nil"]
  /\ ret = [c \in Calls |-> "none"]
  /\ count = [c \in Calls |-> NoCount]
  /\ when = [c \in Calls |-> NoWhen]

\* ---------------------------------------------------- hooks and the child
\* what the pre hook returns
PreResult(h) == IF h = "fail" THEN "PreError" ELSE "nil"

\* mutant: the error of the pre hook is ignored
PreFailedNever(e) == FALSE

\* if err = r.pre(cmd); err != nil
PreFailed(e) == e # "nil"

\* the error cmd.Wait() returns for an exit status
WaitErr(st) == IF st = "clean" THEN "nil" ELSE "ExitError"

\* mutant: the wait is given up when the context is done
WaitReadyOrDone(c) == proc[c] = "exited" \/ cancelled[c]

\* cmd.Wait() blocks until the child has exited
WaitReady(c) == proc[c] = "exited"

\* Wait reaps the exited child; the handle is done afterwards
Reap(p) == IF p = "exited" THEN "reaped" ELSE p

\* mutant: cleanup <- struct{}{} needs the goroutine to receive
SendReady(c) == wpc[c] = "select"

\* close(cleanup) never blocks
CloseReady(c) == TRUE

\* mutant: Run reports the context's error once it is done
RunResultCtx(c) == IF cancelled[c] THEN "Canceled" ELSE err[c]

\* return err
RunResult(c) == err[c]

\* mutant: the select sits in a for loop
AfterExitLoop == "select"

\* the goroutine ends after the exit hook
AfterExit == "terminated"

\* mutant: the start gives up when the context is already done
StartResultCtx(c, ok) ==
  IF cancelled[c] THEN "Canceled" ELSE IF ok THEN "nil" ELSE "StartError"

\* what cmd.Start() returns; ok is whether the OS could create the process
StartResult(c, ok) == IF ok THEN "nil" ELSE "StartError"

\* mutant: the error of cmd.Start() is ignored
StartFailedNever(e) == FALSE

\* if err = cmd.Start(); err != nil
StartFailed(e) == e # "nil"

\* mutant: the goroutine is spawned right after the start, the post hook
\* is skipped
AfterStartSpawn == "spawn"

\* after a successful start comes the post hook
AfterStart == "post"

\* mutant: the nil check of r.exit is missing
HasHookAlways(h) == TRUE

\* if r.exit != nil
HasHook(h) == h # "nil"

\* mutant: cleanup is never closed
LeftOpen(ch) == ch

\* close(cleanup)
CloseChan(ch) == "closed"

\* mutant: cmd is kept where all the calls on the runner share it
SharedCmd(c) == "c2"

\* the cmd the goroutine of call c captured: the local cmd of that call
Target(c) == c

\* how a running child may exit on its own; after SIGTERM it may also die
\* of the signal
ExitStatuses(c) ==
  {"clean", "nonzero"} \cup (IF termSent[c] THEN {"signaled"} ELSE {})

\* ------------------------------------------------------------ main flow
\* path, err := exec.LookPath(r.path); if err != nil { return err }
LookPath(c) ==
  /\ pc[c] = "idle"
  /\ IF LookPathOK(r.path)
       THEN /\ pc' = [pc EXCEPT ![c] = "command"]
            /\ UNCHANGED <<err, ret>>
       ELSE /\ err' = [err EXCEPT ![c] = "ErrNotFound"]
            /\ ret' = [ret EXCEPT ![c] = "ErrNotFound"]
            /\ pc' = [pc EXCEPT ![c] = "returned"]
  /\ UNCHANGED <<config, cmd, wpc, cancelled, cleanup, proc, status, termSent,
                 count, when>>

\* args := strings.Fields(arg); cmd := exec.Command(path, args...)
BuildCommand(c) ==
  /\ pc[c] = "command"
  /\ cmd' = [cmd EXCEPT ![c] = Command(r.path, Fields(arg[c]))]
  /\ pc' = [pc EXCEPT ![c] = "pre"]
  /\ UNCHANGED <<config, wpc, cancelled, cleanup, proc, status, termSent,
                 err, ret, count, when>>

\* if r.pre != nil { if err = r.pre(cmd); err != nil { return err } }
RunPre(c) ==
  /\ pc[c] = "pre"
  /\ IF r.pre = "nil"
       THEN /\ pc' = [pc EXCEPT ![c] = "start"]
            /\ UNCHANGED <<err, ret, count>>
       ELSE /\ count' = Bump(c, "pre")
            /\ err' = [err EXCEPT ![c] = PreResult(r.pre)]
            /\ IF PreFailed(PreResult(r.pre))
                 THEN /\ ret' = [ret EXCEPT ![c] = PreResult(r.pre)]
                      /\ pc' = [pc EXCEPT ![c] = "returned"]
                 ELSE /\ pc' = [pc EXCEPT ![c] = "start"]
                      /\ UNCHANGED ret
  /\ UNCHANGED <<config, cmd, wpc, cancelled, cleanup, proc, status, termSent,
                 when>>

\* if err = cmd.Start(); err != nil { return err }
Start(c) ==
  /\ pc[c] = "start"
  /\ \E ok \in BOOLEAN :
       /\ err' = [err EXCEPT ![c] = StartResult(c, ok)]
       /\ IF ok
            THEN /\ proc' = [proc EXCEPT ![c] = "running"]
                 /\ count' = Bump(c, "start")
            ELSE UNCHANGED <<proc, count>>
       /\ IF StartFailed(StartResult(c, ok))
            THEN /\ ret' = [ret EXCEPT ![c] = StartResult(c, ok)]
                 /\ pc' = [pc EXCEPT ![c] = "returned"]
            ELSE /\ pc' = [pc EXCEPT ![c] = AfterStart]
                 /\ UNCHANGED ret
  /\ UNCHANGED <<config, cmd, wpc, cancelled, cleanup, status, termSent, when>>

\* if r.post != nil { r.post(cmd) }
RunPost(c) ==
  /\ pc[c] = "post"
  /\ count' = IF r.post = "nil" THEN count ELSE Bump(c, "post")
  /\ pc' = [pc EXCEPT ![c] = "spawn"]
  /\ UNCHANGED <<config, cmd, wpc, cancelled, cleanup, proc, status, termSent,
                 err, ret, when>>

\* done := ctx.Done(); cleanup := make(chan struct{}); go func() {...}()
Spawn(c) ==
  /\ pc[c] = "spawn"
  /\ cleanup' = [cleanup EXCEPT ![c] = "open"]
  /\ wpc' = [wpc EXCEPT ![c] = "select"]
  /\ count' = Bump(c, "spawn")
  /\ pc' = [pc EXCEPT ![c] = "wait"]
  /\ UNCHANGED <<config, cmd, cancelled, proc, status, termSent, err, ret, when>>

\* err = cmd.Wait()
Wait(c) ==
  /\ pc[c] = "wait"
  /\ WaitReady(c)
  /\ proc' = [proc EXCEPT ![c] = Reap(@)]
  /\ err' = [err EXCEPT ![c] = WaitErr(status[c])]
  /\ count' = Bump(c, "wait")
  /\ pc' = [pc EXCEPT ![c] = "close"]
  /\ UNCHANGED <<config, cmd, wpc, cancelled, cleanup, status, termSent, ret, when>>

\* close(cleanup)
CloseCleanup(c) ==
  /\ pc[c] = "close"
  /\ CloseReady(c)
  /\ cleanup' = [cleanup EXCEPT ![c] = CloseChan(@)]
  /\ pc' = [pc EXCEPT ![c] = "return"]
  /\ UNCHANGED <<config, cmd, wpc, cancelled, proc, status, termSent, err, ret,
                 count, when>>

\* return err
Return(c) ==
  /\ pc[c] = "return"
  /\ ret' = [ret EXCEPT ![c] = RunResult(c)]
  /\ pc' = [pc EXCEPT ![c] = "returned"]
  /\ UNCHANGED <<config, cmd, wpc, cancelled, cleanup, proc, status, termSent,
                 err, count, when>>

\* ------------------------------------------------- the spawned goroutine
\* select: case <-done, taken when the context is done; a nil r.exit is
\* skipped and the goroutine ends
SelectDone(c) ==
  /\ wpc[c] = "select"
  /\ cancelled[c]
  /\ count' = Bump(c, "done")
  /\ wpc' = [wpc EXCEPT ![c] = IF HasHook(r.exit) THEN "exit" ELSE "terminated"]
  /\ UNCHANGED <<config, cmd, pc, cancelled, cleanup, proc, status, termSent,
                 err, ret, when>>

\* select: case <-cleanup: return, taken when cleanup is closed
SelectCleanup(c) ==
  /\ wpc[c] = "select"
  /\ cleanup[c] = "closed"
  /\ count' = Bump(c, "teardown")
  /\ wpc' = [wpc EXCEPT ![c] = "terminated"]
  /\ UNCHANGED <<config, cmd, pc, cancelled, cleanup, proc, status, termSent,
                 err, ret, when>>

\* r.exit(cmd): the default hook is cmd.Process.Kill(), the example's is
\* cmd.Process.Signal(SIGTERM); neither reaches a child that is gone
RunExit(c) ==
  /\ wpc[c] = "exit"
  /\ count' = [count EXCEPT ![c].exit = @ + 1,
                            ![c].kill = IF r.exit = "kill" THEN @ + 1 ELSE @,
                            ![c].sig = IF r.exit = "term" THEN @ + 1 ELSE @]
  /\ when' = [when EXCEPT ![c].exit = proc[Target(c)], ![c].exitpc = pc[c]]
  /\ IF r.exit = "kill" /\ proc[Target(c)] = "running"
       THEN /\ proc' = [proc EXCEPT ![Target(c)] = "exited"]
            /\ status' = [status EXCEPT ![Target(c)] = "signaled"]
       ELSE UNCHANGED <<proc, status>>
  /\ termSent' = [termSent EXCEPT ![Target(c)] =
                    @ \/ (r.exit = "term" /\ proc[Target(c)] = "running")]
  /\ wpc' = [wpc EXCEPT ![c] = AfterExit]
  /\ UNCHANGED <<config, cmd, pc, cancelled, cleanup, err, ret>>

\* ------------------------------------------------------- the environment
\* the caller cancels the context of call c (or its deadline passes)
Cancel(c) ==
  /\ ~cancelled[c]
  /\ cancelled' = [cancelled EXCEPT ![c] = TRUE]
  /\ when' = [when EXCEPT ![c].cancel = proc[c]]
  /\ UNCHANGED <<config, cmd, pc, wpc, cleanup, proc, status, termSent, err,
                 ret, count>>

\* the child exits on its own
ProcExit(c) ==
  /\ proc[c] = "running"
  /\ \E st \in ExitStatuses(c) : status' = [status EXCEPT ![c] = st]
  /\ proc' = [proc EXCEPT ![c] = "exited"]
  /\ UNCHANGED <<config, cmd, pc, wpc, cancelled, cleanup, termSent, err, ret,
                 count, when>>

\* ---------------------------------------------------------- specifications
MainStep(c) ==
  \/ LookPath(c)
  \/ BuildCommand(c)
  \/ RunPre(c)
  \/ Start(c)
  \/ RunPost(c)
  \/ Spawn(c)
  \/ Wait(c)
  \/ CloseCleanup(c)
  \/ Return(c)

WatcherStep(c) ==
  \/ SelectDone(c)
  \/ SelectCleanup(c)
  \/ RunExit(c)

Next ==
  \E c \in Solo :
    \/ MainStep(c)
    \/ WatcherStep(c)
    \/ Cancel(c)
    \/ ProcExit(c)

\* one Run call on a runner built by HookRunner
Spec == Init /\ [][Next]_vars

\* the Go scheduler runs every goroutine that can take a step
FairSpec ==
  /\ Spec
  /\ \A c \in Solo : WF_vars(MainStep(c)) /\ WF_vars(WatcherStep(c))

\* strings.Fields on every bounded argument string: one Run call on the
\* default runner, up to the built command
InitFields ==
  /\ opts = <<>>
  /\ r = HookRunner(opts)
  /\ \E s \in AllArgs : arg = [c \in Calls |-> s]
  /\ cmd = [c \in Calls |-> NoCmd]
  /\ pc = [c \in Calls |-> "idle"]
  /\ wpc = [c \in Calls |-> "none"]
  /\ cancelled = [c \in Calls |-> FALSE]
  /\ cleanup = [c \in Calls |-> "none"]
  /\ proc = [c \in Calls |-> "none"]
  /\ status = [c \in Calls |-> "none"]
  /\ termSent = [c \in Calls |-> FALSE]
  /\ err = [c \in Calls |-> "nil"]
  /\ ret = [c \in Calls |-> "none"]
  /\ count = [c \in Calls |-> NoCount]
  /\ when = [c \in Calls |-> NoWhen]

NextFields == \E c \in Solo : LookPath(c) \/ BuildCommand(c)

FieldsSpec == InitFields /\ [][NextFields]_vars

\* =================================================================== claims
Started(c) == count[c].start = 1

\* ---- C1 ------------------------------------------------------------------
\* C1 as stated: whenever cancellation fired while the child was running
\* and an exit hook is configured, the goroutine of that Run ends having
\* invoked the exit hook exactly once.
C1_ExactlyOnce ==
  \A c \in Calls :
    (when[c].cancel = "running" /\ r.exit # "nil" /\ wpc[c] = "terminated")
      => count[c].exit = 1

C1_AtMostOnce ==
  \A c \in Calls :
    when[c].cancel = "running" =>
      /\ count[c].exit <= 1
      /\ wpc[c] = "terminated" =>
           count[c].exit = (IF count[c].done = 1 /\ r.exit # "nil" THEN 1 ELSE 0)

\* C1 (amended): when cancellation fires while the child is running, the
\* exit hook is invoked at most once: once if the goroutine takes the
\* cancellation branch with a non-nil hook, never if it takes the teardown
\* branch; and once the child has exited Run eventually returns.
C1_CancelWhileRunning ==
  /\ []C1_AtMostOnce
  /\ \A c \in Calls :
       (when[c].cancel = "running" /\ proc[c] = "exited") ~> (pc[c] = "returned")

C1_Witness ==
  \E c \in Calls :
    /\ when[c].cancel = "running"
    /\ count[c].exit = 1
    /\ when[c].exit = "running"
    /\ pc[c] = "returned"

\* ---- C2 ------------------------------------------------------------------
\* C2: when the child has exited on its own before cancellation fires, the
\* exit hook is never invoked in that Run.
C2_NoHookAfterNaturalExit ==
  \A c \in Calls :
    when[c].cancel \in {"exited", "reaped"} => count[c].exit = 0

\* ---- C3 ------------------------------------------------------------------
\* C3: once the pre hook has returned an error, Run has returned exactly
\* that error, no process was started, neither the post hook nor the exit
\* hook was invoked and no goroutine was spawned.
C3_PreHookError ==
  \A c \in Calls :
    (r.pre = "fail" /\ count[c].pre > 0) =>
      /\ pc[c] = "returned"
      /\ ret[c] = "PreError"
      /\ proc[c] = "none"
      /\ count[c].start = 0
      /\ count[c].post = 0
      /\ count[c].exit = 0
      /\ count[c].spawn = 0
      /\ wpc[c] = "none"

C3_Witness ==
  \E c \in Calls :
    /\ r.pre = "fail"
    /\ r.post # "nil"
    /\ count[c].pre = 1
    /\ ret[c] = "PreError"
    /\ cancelled[c]

\* ---- C4 ------------------------------------------------------------------
\* C4: when the configured executable cannot be resolved, Run returns the
\* resolution error first: no command is built, no process is created and
\* no hook is invoked.
C4_ResolutionError ==
  \A c \in Calls :
    (r.path \notin Installed /\ pc[c] # "idle") =>
      /\ pc[c] = "returned"
      /\ ret[c] = "ErrNotFound"
      /\ cmd[c] = NoCmd
      /\ proc[c] = "none"
      /\ count[c] = NoCount
      /\ wpc[c] = "none"

C4_Witness ==
  \E c \in Calls :
    /\ r.path \notin Installed
    /\ r.pre # "nil"
    /\ ret[c] = "ErrNotFound"
    /\ pc[c] = "returned"

\* ---- C5 ------------------------------------------------------------------
\* C5: after a successful start, Run has returned only if the child has
\* exited and the wait on it has completed, cancelled or not.
C5_ReturnAfterWait ==
  \A c \in Calls :
    (Started(c) /\ pc[c] = "returned") =>
      /\ proc[c] = "reaped"
      /\ status[c] # "none"
      /\ count[c].wait = 1

C5_Witness ==
  \E c \in Calls :
    /\ pc[c] = "returned"
    /\ when[c].cancel = "running"
    /\ r.exit = "term"
    /\ when[c].exit = "running"
    /\ status[c] = "clean"

\* ---- C6 ------------------------------------------------------------------
\* C6: after a successful start, what Run returns is the wait result of the
\* child: nil for a clean exit, an exit error for a non-zero status or a
\* death by signal, whatever the context and the hooks did.
C6_ReturnsWaitResult ==
  \A c \in Calls :
    (Started(c) /\ pc[c] = "returned") =>
      /\ status[c] = "clean" => ret[c] = "nil"
      /\ status[c] \in {"nonzero", "signaled"} => ret[c] = "ExitError"
      /\ status[c] \in {"clean", "nonzero", "signaled"}

C6_Witness ==
  \E c \in Calls :
    /\ pc[c] = "returned"
    /\ cancelled[c]
    /\ count[c].kill = 1
    /\ status[c] = "signaled"
    /\ ret[c] = "ExitError"

\* ---- C7 ------------------------------------------------------------------
\* C7: when Run has returned, the goroutine it spawned has terminated.
C7_WatcherEndsBeforeReturn ==
  \A c \in Calls :
    (pc[c] = "returned" /\ count[c].spawn = 1) => wpc[c] = "terminated"

\* ---- C8 ------------------------------------------------------------------
\* C8 as stated: in no Run is the exit hook invoked and the teardown signal
\* sent as well.
C8_HookExcludesTeardown ==
  \A c \in Calls : ~(count[c].exit > 0 /\ cleanup[c] = "closed")

\* C8 (amended): the goroutine takes exactly one branch of its select, so
\* it never both invokes the exit hook and receives the teardown signal;
\* the teardown signal itself is sent in every Run once the wait has
\* returned, hook or no hook, and never earlier.
C8_OneBranch ==
  \A c \in Calls :
    /\ count[c].done + count[c].teardown <= 1
    /\ count[c].exit > 0 => (count[c].done = 1 /\ count[c].teardown = 0)
    /\ cleanup[c] = "closed" <=> (pc[c] \in {"return", "returned"} /\ count[c].wait = 1)

C8_Witness ==
  \E c \in Calls :
    /\ count[c].exit = 1
    /\ cleanup[c] = "closed"
    /\ wpc[c] = "terminated"
    /\ pc[c] = "returned"

\* ---- C9 ------------------------------------------------------------------
RECURSIVE Join(_)
\* the tokens joined with single spaces
Join(ts) ==
  IF ts = <<>> THEN <<>>
  ELSE IF Len(ts) = 1 THEN ts[1]
  ELSE ts[1] \o <<" ">> \o Join(Tail(ts))

\* position i of s survives collapsing: a character that is no whitespace,
\* or the first whitespace of a run that is neither leading nor trailing
Kept(s, i) ==
  \/ s[i] \notin AsciiSpace
  \/ /\ i > 1
     /\ s[i - 1] \notin AsciiSpace
     /\ \E j \in (i + 1)..Len(s) : s[j] \notin AsciiSpace

RECURSIVE CollapseFrom(_, _)
CollapseFrom(s, i) ==
  IF i > Len(s) THEN <<>>
  ELSE (IF Kept(s, i)
          THEN <<(IF s[i] \in AsciiSpace THEN " " ELSE s[i])>>
          ELSE <<>>) \o CollapseFrom(s, i + 1)

\* s trimmed, with every run of whitespace collapsed to one space
Collapse(s) == CollapseFrom(s, 1)

\* C9: the arguments of the built command are the argument string split on
\* runs of whitespace: no token is empty or contains whitespace, and the
\* tokens joined by single spaces are the trimmed, collapsed input;
\* "-i t" gives exactly -i and t.
C9_FieldsSplit ==
  \A c \in Calls :
    pc[c] = "pre" =>
      LET toks == Tail(cmd[c].Args) IN
        /\ \A k \in 1..Len(toks) :
             /\ toks[k] # <<>>
             /\ \A j \in 1..Len(toks[k]) : toks[k][j] \notin AsciiSpace
        /\ Join(toks) = Collapse(arg[c])
        /\ arg[c] = <<"-", "i", " ", "t">> => toks = << <<"-", "i">>, <<"t">> >>

C9_Witness ==
  \E c \in Calls :
    /\ pc[c] = "pre"
    /\ arg[c] = <<" ", "-", "\t", " ">>
    /\ cmd[c].Args = <<"ffmpeg", <<"-">> >>

\* ---- C10 -----------------------------------------------------------------
DoneHookAt == {i \in 1..Len(opts) : opts[i].opt = "DoneHook"}

\* the DoneHook option that was applied last
LastDoneHook == opts[CHOOSE i \in DoneHookAt : \A j \in DoneHookAt : j <= i].v

\* C10: once the goroutine has handled a cancellation, without a DoneHook
\* option the child got the default kill (and dies of it if it was still
\* running); with a DoneHook option the kill is not delivered and the custom
\* hook is all that happened.
C10_DefaultKillReplaced ==
  \A c \in Calls :
    (count[c].done = 1 /\ wpc[c] = "terminated") =>
      IF DoneHookAt = {}
        THEN /\ count[c].exit = 1
             /\ count[c].kill = 1
             /\ count[c].sig = 0
             /\ when[c].exit = "running" => status[c] = "signaled"
        ELSE /\ count[c].kill = 0
             /\ count[c].exit = (IF LastDoneHook = "nil" THEN 0 ELSE 1)
             /\ count[c].sig = (IF LastDoneHook = "term" THEN 1 ELSE 0)
             /\ status[c] = "signaled" => termSent[c]

C10_Witness ==
  \E c \in Calls :
    /\ DoneHookAt = {}
    /\ count[c].done = 1
    /\ wpc[c] = "terminated"
    /\ count[c].kill = 1
    /\ when[c].exit = "running"
    /\ status[c] = "signaled"

\* ---- C11 -----------------------------------------------------------------
\* C11: the lifecycle events of a Run are ordered: a configured pre hook
\* has completed before the process is started; the post hook is invoked
\* only after a successful start and, if configured, has completed before
\* the goroutine is spawned and before the wait begins; so the exit hook is
\* never invoked before the post hook has returned, however early the
\* cancellation fired.
C11_LifecycleOrder ==
  \A c \in Calls :
    /\ count[c].start > 0 => (r.pre # "nil" => count[c].pre = 1)
    /\ count[c].post > 0 => count[c].start = 1
    /\ pc[c] = "post" => (wpc[c] = "none" /\ count[c].spawn = 0 /\ count[c].wait = 0)
    /\ (count[c].spawn > 0 \/ count[c].wait > 0 \/ wpc[c] # "none" \/ pc[c] = "wait") =>
         (count[c].start = 1 /\ (r.post # "nil" => count[c].post = 1))
    /\ (count[c].exit > 0 \/ wpc[c] = "exit") =>
         (count[c].start = 1 /\ (r.post # "nil" => count[c].post = 1))

C11_Witness ==
  \E c \in Calls :
    /\ when[c].cancel = "none"
    /\ r.pre = "ok"
    /\ r.post = "log"
    /\ count[c].pre = 1
    /\ count[c].post = 1
    /\ count[c].exit = 1

\* ---- C12 -----------------------------------------------------------------
\* C12: the exit hook is never started on a process the main flow's wait
\* has already reaped.
C12_NoHookAfterWait ==
  \A c \in Calls : when[c].exit # "reaped" /\ when[c].exitpc \in {"never", "wait"}

\* ---- C13 -----------------------------------------------------------------
\* C13: the goroutine does not leak: in a Run whose process was started and
\* has exited, the goroutine the Run spawns eventually terminates, by the
\* cancellation branch or by the teardown signal, also when the
\* cancellation never fires.
C13_WatcherTerminates ==
  \A c \in Calls :
    (count[c].start = 1 /\ proc[c] \in {"exited", "reaped"}) ~> (wpc[c] = "terminated")

C13_Witness ==
  \E c \in Calls :
    /\ ~cancelled[c]
    /\ count[c].teardown = 1
    /\ wpc[c] = "terminated"
    /\ pc[c] = "returned"

\* ---- C14 -----------------------------------------------------------------
\* C14: when cmd.Start() fails, Run returns the start error and nothing
\* else happens: no post hook, no exit hook, no goroutine, no wait; a
\* configured pre hook has run.
C14_StartError ==
  \A c \in Calls :
    err[c] = "StartError" =>
      /\ pc[c] = "returned"
      /\ ret[c] = "StartError"
      /\ proc[c] = "none"
      /\ count[c].start = 0
      /\ count[c].post = 0
      /\ count[c].exit = 0
      /\ count[c].spawn = 0
      /\ count[c].wait = 0
      /\ wpc[c] = "none"
      /\ cleanup[c] = "none"
      /\ r.pre # "nil" => count[c].pre = 1

C14_Witness ==
  \E c \in Calls :
    /\ ret[c] = "StartError"
    /\ r.pre = "ok"
    /\ r.post = "log"
    /\ count[c].pre = 1
    /\ cancelled[c]

\* ---- C15 -----------------------------------------------------------------
\* two concurrent Run calls on the same runner, each with its own context;
\* the runner is built from at most one option
Init2 ==
  /\ Init
  /\ Len(opts) <= 1
  /\ \A c \in Calls : arg[c] = <<"-", "i", " ", "t">>

Next2 ==
  \E c \in Calls :
    \/ MainStep(c)
    \/ WatcherStep(c)
    \/ Cancel(c)
    \/ ProcExit(c)

TwoSpec == Init2 /\ [][Next2]_vars

\* a step that invokes the exit hook of call c acts on the process of call
\* c and leaves the processes of the other calls alone
C15_HookStep ==
  \A c \in Calls :
    count'[c].exit # count[c].exit =>
      /\ when'[c].exit = proc[c]
      /\ \A d \in Calls \ {c} :
           /\ proc'[d] = proc[d]
           /\ status'[d] = status[d]
           /\ termSent'[d] = termSent[d]
           /\ count'[d] = count[d]

\* each Run starts at most one process, and a call whose own context was
\* not cancelled sees no exit hook and no signal on its process
C15_OwnProcess ==
  \A c \in Calls :
    /\ count[c].start <= 1
    /\ count[c].exit > 0 => cancelled[c]
    /\ termSent[c] => cancelled[c]
    /\ status[c] = "signaled" => cancelled[c]

\* C15: Run never changes the runner's path and hooks; each Run starts at
\* most one process; with two concurrent Runs on one runner, a cancellation
\* of one call invokes the exit hook on that call's own process only and
\* never touches the other call's process.
C15_CallsIndependent ==
  /\ [][r' = r /\ opts' = opts /\ C15_HookStep]_vars
  /\ []C15_OwnProcess

C15_Witness ==
  /\ count["c1"].kill = 1
  /\ when["c1"].exit = "running"
  /\ status["c1"] = "signaled"
  /\ ~cancelled["c2"]
  /\ proc["c2"] = "running"
  /\ pc["c2"] = "wait"

\* ---- C16 -----------------------------------------------------------------
\* C16: the exit hook is invoked at most once per Run, whenever or whether
\* the cancellation fires and whenever the process exits.
C16_HookAtMostOnce ==
  \A c \in Calls :
    /\ count[c].exit <= 1
    /\ count[c].kill + count[c].sig <= 1

C16_Witness ==
  \E c \in Calls :
    /\ count[c].exit = 1
    /\ wpc[c] = "terminated"
    /\ pc[c] = "returned"
    /\ cancelled[c]

\* ---- C17 -----------------------------------------------------------------
\* the cancellation fired before the process was started
CancelledEarly(c) == when[c].cancel = "none"

C17_NoEarlyAbort ==
  \A c \in Calls :
    CancelledEarly(c) =>
      /\ (pc[c] = "returned" /\ count[c].start = 0) =>
           /\ ret[c] \in {"ErrNotFound", "PreError", "StartError"}
           /\ ret[c] = "ErrNotFound" => r.path \notin Installed
           /\ ret[c] = "PreError" => r.pre = "fail"
      /\ pc[c] \in {"start", "post", "spawn", "wait", "close", "return"} =>
           (r.pre # "nil" => count[c].pre = 1)
      /\ count[c].exit > 0 =>
           /\ count[c].start = 1
           /\ r.post # "nil" => count[c].post = 1
           /\ when[c].exitpc \notin {"idle", "command", "pre", "start", "post", "spawn"}

\* C17: a cancellation that fired before Run was called, or during the
\* resolution, the pre hook or the start, does not stop the launch: Run
\* returns early only with a resolution, pre-hook or start error of its own,
\* otherwise it goes on to run the pre hook and to start the process (the
\* start is attempted whatever the context says); the exit hook comes only
\* after the start and the post hook.
C17_CancelBeforeStart ==
  /\ []C17_NoEarlyAbort
  /\ \A c \in Calls :
       (cancelled[c] /\ pc[c] = "idle" /\ r.path \in Installed /\ r.pre # "fail")
         ~> (count[c].start = 1 \/ ret[c] = "StartError")

C17_Witness ==
  \E c \in Calls :
    /\ CancelledEarly(c)
    /\ r.pre = "ok"
    /\ r.post = "log"
    /\ count[c].pre = 1
    /\ count[c].start = 1
    /\ count[c].post = 1
    /\ count[c].exit = 1
    /\ when[c].exit = "running"

\* ---- C18 -----------------------------------------------------------------
\* C18: with DoneHook(nil) a fired cancellation does nothing to the
\* process: no hook, no kill, no signal; the goroutine just ends, and Run
\* returns only once the process has exited on its own.
C18_NilDoneHook ==
  \A c \in Calls :
    r.exit = "nil" =>
      /\ count[c].exit = 0
      /\ count[c].kill = 0
      /\ count[c].sig = 0
      /\ ~termSent[c]
      /\ wpc[c] # "exit"
      /\ count[c].done = 1 => wpc[c] = "terminated"
      /\ (pc[c] = "returned" /\ count[c].start = 1) =>
           (proc[c] = "reaped" /\ status[c] \in {"clean", "nonzero"})

C18_Witness ==
  \E c \in Calls :
    /\ r.exit = "nil"
    /\ when[c].cancel = "running"
    /\ count[c].done = 1
    /\ wpc[c] = "terminated"
    /\ pc[c] = "returned"
    /\ status[c] = "nonzero"

====
